---- MODULE Spec2Model ----
(***************************************************************************)
(* A model of the Rummy assistant bot: the advisory engine RummyAI         *)
(* (bot/game_logic.py), the card helpers (bot/utils.py, bot/constants.py)  *)
(* and the conversation layer RummyBotHandlers (bot/handlers.py, main.py). *)
(*                                                                         *)
(* Representation.                                                         *)
(*   - A card token is a Python str; here it is the sequence of its        *)
(*     characters, <<"1","0","H">> for "10H", so that card[:-1], card[-1]  *)
(*     and f"{RANKS[i]}{suit}" are computed as the code computes them.     *)
(*   - A Python list is a sequence; a 0-based Python index i is i+1 here.  *)
(*   - A call that raises is the record Raise(e); a call that returns is   *)
(*     Return(v).                                                          *)
(*   - A float is an integer number of hundredths (0.4 is 40); the discard *)
(*     scores, whose denominators are len(opponent_picks)+1, are integer   *)
(*     numerators over that common denominator.                            *)
(*   - Name resolution: game_logic.py reads the global RANKS and           *)
(*     handlers.py calls validate_card without importing them; main.py     *)
(*     uses CommandHandler and Update the same way.  The model binds each  *)
(*     of these names to the one definition the repository has for it      *)
(*     (constants.RANKS, utils.validate_card, telegram.ext.CommandHandler).*)
(*     SpecShipped is the exception: there validate_card is resolved as    *)
(*     the imports of handlers.py leave it, unbound.                       *)
(***************************************************************************)
EXTENDS Integers, Sequences, FiniteSets, TLC

(***************************************************************************)
(* bot/constants.py                                                        *)
(***************************************************************************)
SUITS == << "H", "D", "C", "S" >>

RANKS == << <<"2">>, <<"3">>, <<"4">>, <<"5">>, <<"6">>, <<"7">>, <<"8">>,
            <<"9">>, <<"1","0">>, <<"J">>, <<"Q">>, <<"K">>, <<"A">> >>

WAITING_FOR_HAND == 0

WAITING_FOR_JOKER == 1

WAITING_FOR_DISCARD_PILE == 2

WAITING_FOR_OPPONENT_PICKS == 3

WAITING_FOR_OPPONENT_DISCARDS == 4

WAITING_FOR_OPEN_CARD == 5

SHOWING_SUGGESTION == 6

GAME_ACTIVE == 7

\* ConversationHandler.END of python-telegram-bot
END == -1

(***************************************************************************)
(* Python primitives                                                       *)
(***************************************************************************)
\* None: no str is this sequence, whose one element is not a character
None == <<"None">>

Return(v) == [exc |-> "", val |-> v]

Raise(e) == [exc |-> e]

Raised(r) == r.exc # ""

\* seq[i] for a Python int i: negative indices count from the end.
Item(seq, i) ==
    IF i >= 0 /\ i < Len(seq) THEN Return(seq[i + 1])
    ELSE IF i < 0 /\ i >= -Len(seq) THEN Return(seq[Len(seq) + i + 1])
    ELSE Raise("IndexError")

\* x in seq
In(x, seq) == \E i \in 1..Len(seq) : seq[i] = x

\* seq.index(x): the 0-based position of the first x
Index(seq, x) ==
    IF In(x, seq)
    THEN Return((CHOOSE i \in 1..Len(seq) :
                    seq[i] = x /\ \A j \in 1..(i - 1) : seq[j] # x) - 1)
    ELSE Raise("ValueError")

\* card[:-1]
RankOf(card) == SubSeq(card, 1, Len(card) - 1)

\* card[-1]
SuitOf(card) == Item(card, -1)

\* f"{RANKS[i]}{suit}"
Fmt(rank, suit) == rank \o <<suit>>

\* RANKS.index(card[:-1]) of a card whose rank is in RANKS
RankIdx(card) == Index(RANKS, RankOf(card)).val

\* sum(1 for c in seq if P(c))
Count(seq, P(_)) == Len(SelectSeq(seq, P))

\* sum(values)
RECURSIVE Sum(_)
Sum(values) == IF values = <<>> THEN 0 ELSE Head(values) + Sum(Tail(values))

\* [F(x) for x in seq]
Map(seq, F(_)) == [i \in 1..Len(seq) |-> F(seq[i])]

\* list.sort / sorted on (key, item) pairs with integer keys: ascending, stable
RECURSIVE InsertByKey(_, _)
InsertByKey(sorted, x) ==
    IF sorted = <<>> THEN <<x>>
    ELSE IF sorted[Len(sorted)].key <= x.key THEN Append(sorted, x)
    ELSE Append(InsertByKey(SubSeq(sorted, 1, Len(sorted) - 1), x),
                sorted[Len(sorted)])

RECURSIVE StableSort(_)
StableSort(pairs) ==
    IF pairs = <<>> THEN <<>>
    ELSE InsertByKey(StableSort(SubSeq(pairs, 1, Len(pairs) - 1)),
                     pairs[Len(pairs)])

\* the keys of a defaultdict filled in one pass over seq, in insertion order
RECURSIVE KeysInOrder(_)
KeysInOrder(keys) ==
    IF keys = <<>> THEN <<>>
    ELSE LET front == KeysInOrder(SubSeq(keys, 1, Len(keys) - 1))
             last  == keys[Len(keys)]
         IN  IF In(last, front) THEN front ELSE Append(front, last)

\* sorted(cards, key=lambda c: RANKS.index(c[:-1]))
SortedByRank(cards) ==
    Map(StableSort(Map(cards, LAMBDA c : [key |-> RankIdx(c), item |-> c])),
        LAMBDA p : p.item)

\* suits = defaultdict(list); for card in hand: suits[card[-1]].append(card)
\* The value is list(suits.values()).
SuitGroups(hand) ==
    Map(KeysInOrder(Map(hand, LAMBDA c : SuitOf(c).val)),
        LAMBDA s : SelectSeq(hand, LAMBDA c : SuitOf(c).val = s))

\* rank_counts = defaultdict(list); for card in hand: rank_counts[card[:-1]].append(card)
\* The value is list(rank_counts.values()).
RankGroups(hand) ==
    Map(KeysInOrder(Map(hand, RankOf)),
        LAMBDA r : SelectSeq(hand, LAMBDA c : RankOf(c) = r))

(***************************************************************************)
(* bot/game_logic.py: the Meld Detector and the Hand Evaluator             *)
(***************************************************************************)
\* The loop of _find_sequences_in_sorted_list from index i (0-based) on.
RECURSIVE FindSequencesLoop(_, _, _, _)
FindSequencesLoop(cards, i, current_seq, sequences) ==
    IF i >= Len(cards) THEN sequences
    ELSE LET prev_rank == RankIdx(cards[i])
             curr_rank == RankIdx(cards[i + 1])
         IN  IF curr_rank = prev_rank + 1
             THEN FindSequencesLoop(cards, i + 1, current_seq + 1,
                      IF current_seq + 1 >= 3 THEN sequences + 1 ELSE sequences)
             ELSE FindSequencesLoop(cards, i + 1, 1, sequences)

\* _find_sequences_in_sorted_list with current_seq started at 2: a pair already
\* counts as two cards of a run of three.
_find_sequences_in_sorted_list_FromPairs(cards) ==
    IF Len(cards) < 3 THEN 0 ELSE FindSequencesLoop(cards, 1, 2, 0)

_find_sequences_in_sorted_list(cards) ==
    IF Len(cards) < 3 THEN 0 ELSE FindSequencesLoop(cards, 1, 1, 0)

_count_pure_sequences(hand) ==
    Sum(Map(SuitGroups(hand),
            LAMBDA suit_cards : _find_sequences_in_sorted_list(SortedByRank(suit_cards))))

\* _count_potential_sequences with the bonus given to every suit group, a single
\* card included.
_count_potential_sequences_AnySuit(hand, joker) ==
    Sum(Map(SuitGroups(hand),
            LAMBDA suit_cards :
                100 * _find_sequences_in_sorted_list(SortedByRank(suit_cards))
                + (IF Len(suit_cards) >= 1 THEN 50 ELSE 0)))

\* In hundredths: each suit group of 2 or more cards adds 0.5.
_count_potential_sequences(hand, joker) ==
    Sum(Map(SuitGroups(hand),
            LAMBDA suit_cards :
                100 * _find_sequences_in_sorted_list(SortedByRank(suit_cards))
                + (IF Len(suit_cards) >= 2 THEN 50 ELSE 0)))

\* _count_sets counting three or four of a rank only, as its comment says.
_count_sets_ThreeOfAKind(hand, joker) ==
    Count(RankGroups(hand), LAMBDA cards : Len(cards) >= 3)

_count_sets(hand, joker) ==
    Count(RankGroups(hand), LAMBDA cards : Len(cards) >= 2)

\* not x, for x a list, a str or None
Falsy(x) == x = None \/ x = <<>>

\* In hundredths.
evaluate_hand_strength(hand, joker) ==
    IF Falsy(hand) \/ Falsy(joker) THEN 0
    ELSE LET pure_seq_count      == _count_pure_sequences(hand)
             potential_seq_count == _count_potential_sequences(hand, joker)
             set_count           == _count_sets(hand, joker)
             score == (pure_seq_count * 40) + ((potential_seq_count * 30) \div 100)
                      + (set_count * 30)
         IN  IF score < 100 THEN score ELSE 100

suggest_initial_action(hand, joker) ==
    IF evaluate_hand_strength(hand, joker) >= 50 THEN "Play" ELSE "Drop"

(***************************************************************************)
(* bot/game_logic.py: RummyAI's state and the Opponent Model               *)
(***************************************************************************)
\* A defaultdict(int) is a function from its keys to their counts.
EmptyDict == <<>>

\* d[k] += 1
Inc(d, k) == IF k \in DOMAIN d THEN [d EXCEPT ![k] = @ + 1] ELSE d @@ (k :> 1)

\* for card in cards: d[card] += 1
RECURSIVE IncAll(_, _)
IncAll(d, cards) ==
    IF cards = <<>> THEN d ELSE IncAll(Inc(d, Head(cards)), Tail(cards))

\* RummyAI.__init__
NewRummyAI ==
    [ trap_history  |-> EmptyDict,
      trap_success  |-> EmptyDict,
      opponent_behavior |->
          [ open_picks          |-> EmptyDict,
            discards            |-> EmptyDict,
            sequences_preferred |-> FALSE,
            sets_preferred      |-> FALSE ] ]

\* Iterating the dict open_picks yields its keys, each once.
_is_card_likely_useful_to_opponent(ai, card) ==
    LET rank == RankOf(card)
        suit == SuitOf(card).val
        open_picks == DOMAIN ai.opponent_behavior.open_picks
        rank_picks == Cardinality({c \in open_picks : RankOf(c) = rank})
        suit_picks == Cardinality({c \in open_picks : SuitOf(c).val = suit})
    IN  rank_picks > 1 \/ suit_picks > 2

_is_sequence_related(card, opponent_picks) ==
    LET suit == SuitOf(card)
        rank == RankOf(card)
        rank_idx == Index(RANKS, rank)
    IN  IF Raised(suit) THEN suit
        ELSE IF Raised(rank_idx) THEN rank_idx
        ELSE LET lower_neighbor ==
                     IF rank_idx.val > 0
                     THEN Fmt(Item(RANKS, rank_idx.val - 1).val, suit.val) ELSE None
                 upper_neighbor ==
                     IF rank_idx.val < Len(RANKS) - 1
                     THEN Fmt(Item(RANKS, rank_idx.val + 1).val, suit.val) ELSE None
             IN  Return((lower_neighbor # None /\ In(lower_neighbor, opponent_picks))
                        \/ (upper_neighbor # None /\ In(upper_neighbor, opponent_picks)))

_is_set_related(card, opponent_picks) ==
    Count(opponent_picks, LAMBDA c : RankOf(c) = RankOf(card)) >= 2

\* The value is [ai |-> the object after the call, exc |-> what it raised].
\* Both counting loops run before the first call that can raise.
_update_opponent_behavior(ai, opponent_picks, opponent_discards) ==
    LET ob == ai.opponent_behavior
        counted == [ob EXCEPT !.open_picks = IncAll(@, opponent_picks),
                              !.discards   = IncAll(@, opponent_discards)]
        related == Map(opponent_picks,
                       LAMBDA card : _is_sequence_related(card, opponent_picks))
        failed  == SelectSeq(related, Raised)
        seq_clues == Count(related, LAMBDA r : r.val)
        set_clues == Count(opponent_picks,
                           LAMBDA card : _is_set_related(card, opponent_picks))
    IN  IF failed # <<>>
        THEN [ai |-> [ai EXCEPT !.opponent_behavior = counted], exc |-> failed[1].exc]
        ELSE [ai |-> [ai EXCEPT !.opponent_behavior =
                        IF seq_clues > set_clues + 2
                        THEN [counted EXCEPT !.sequences_preferred = TRUE]
                        ELSE IF set_clues > seq_clues + 2
                        THEN [counted EXCEPT !.sets_preferred = TRUE]
                        ELSE counted],
              exc |-> ""]

(***************************************************************************)
(* bot/game_logic.py: the Draw-Source Advisor                              *)
(***************************************************************************)
_does_card_complete_group(hand, card, joker) ==
    LET suit == SuitOf(card)
        rank == RankOf(card)
        rank_idx == Index(RANKS, rank)
    IN  IF Raised(suit) THEN suit
        ELSE IF Raised(rank_idx) THEN rank_idx
        ELSE
        LET idx == rank_idx.val
            lower_neighbor ==
                IF idx > 0 THEN Fmt(Item(RANKS, idx - 1).val, suit.val) ELSE None
            upper_neighbor ==
                IF idx < Len(RANKS) - 1 THEN Fmt(Item(RANKS, idx + 1).val, suit.val)
                ELSE None
            two_below == Item(RANKS, idx - 2)
            two_above == Item(RANKS, idx + 2)
        IN  \* Case 1: RANKS[rank_idx-2] is read whenever lower_neighbor is set
            IF lower_neighbor # None /\ Raised(two_below) THEN two_below
            ELSE IF /\ lower_neighbor # None
                    /\ In(Fmt(two_below.val, suit.val), hand)
                    /\ In(lower_neighbor, hand)
            THEN Return(TRUE)
            \* Case 2: RANKS[rank_idx+2] is read whenever upper_neighbor is set
            ELSE IF upper_neighbor # None /\ Raised(two_above) THEN two_above
            ELSE IF /\ upper_neighbor # None
                    /\ In(Fmt(two_above.val, suit.val), hand)
                    /\ In(upper_neighbor, hand)
            THEN Return(TRUE)
            \* Case 3
            ELSE IF /\ lower_neighbor # None /\ upper_neighbor # None
                    /\ In(lower_neighbor, hand) /\ In(upper_neighbor, hand)
            THEN Return(TRUE)
            ELSE Return(Count(hand, LAMBDA c : RankOf(c) = rank) >= 2)

\* The value is [ai |-> the object after the call, exc, val].
suggest_pick_source(ai, hand, joker, open_card, discard_pile, opponent_picks, opponent_discards) ==
    IF Falsy(open_card) THEN [ai |-> ai, exc |-> "", val |-> "Closed Deck"]
    ELSE LET updated  == _update_opponent_behavior(ai, opponent_picks, opponent_discards)
             complete == _does_card_complete_group(hand, open_card, joker)
         IN  IF updated.exc # "" THEN [ai |-> updated.ai, exc |-> updated.exc]
             ELSE IF Raised(complete) THEN [ai |-> updated.ai, exc |-> complete.exc]
             ELSE IF complete.val
             THEN [ai |-> updated.ai, exc |-> "", val |-> "Open Deck"]
             ELSE IF ~ _is_card_likely_useful_to_opponent(updated.ai, open_card)
             THEN [ai |-> updated.ai, exc |-> "", val |-> "Open Deck"]
             ELSE [ai |-> updated.ai, exc |-> "", val |-> "Closed Deck"]

(***************************************************************************)
(* bot/game_logic.py: the Trap Advisor                                     *)
(***************************************************************************)
_is_false_sequence_card(hand, card, joker) ==
    LET suit == SuitOf(card)
        rank == RankOf(card)
        rank_idx == Index(RANKS, rank)
    IN  IF Raised(suit) THEN suit
        ELSE IF Raised(rank_idx) THEN rank_idx
        ELSE
        LET idx == rank_idx.val
            lower_neighbor ==
                IF idx > 0 THEN Fmt(Item(RANKS, idx - 1).val, suit.val) ELSE None
            upper_neighbor ==
                IF idx < Len(RANKS) - 1 THEN Fmt(Item(RANKS, idx + 1).val, suit.val)
                ELSE None
            case1 == /\ lower_neighbor # None /\ upper_neighbor # None
                     /\ In(lower_neighbor, hand) /\ In(upper_neighbor, hand)
            case2 == /\ lower_neighbor # None /\ idx >= 2
                     /\ In(lower_neighbor, hand)
                     /\ In(Fmt(Item(RANKS, idx - 2).val, suit.val), hand)
            case3 == /\ upper_neighbor # None /\ idx < Len(RANKS) - 2
                     /\ In(upper_neighbor, hand)
                     /\ In(Fmt(Item(RANKS, idx + 2).val, suit.val), hand)
        IN  Return(case1 \/ case2 \/ case3)

\* The loop of suggest_trap_card over hand[i..], i 1-based.
RECURSIVE TrapLoop(_, _, _, _)
TrapLoop(ai, hand, joker, i) ==
    IF i > Len(hand) THEN [ai |-> ai, exc |-> "", val |-> None]
    ELSE LET card == hand[i]
             false_seq == _is_false_sequence_card(hand, card, joker)
         IN  IF card = joker THEN TrapLoop(ai, hand, joker, i + 1)
             ELSE IF Raised(false_seq) THEN [ai |-> ai, exc |-> false_seq.exc]
             ELSE IF false_seq.val /\ _is_card_likely_useful_to_opponent(ai, card)
             THEN [ai  |-> [ai EXCEPT !.trap_history = Inc(@, card)],
                   exc |-> "", val |-> card]
             ELSE TrapLoop(ai, hand, joker, i + 1)

\* suggest_trap_card with the loop started at the second card of the hand.
suggest_trap_card_FromSecond(ai, hand, joker, opponent_picks, opponent_discards) ==
    TrapLoop(ai, hand, joker, 2)

\* The value is [ai |-> the object after the call, exc, val].
suggest_trap_card(ai, hand, joker, opponent_picks, opponent_discards) ==
    TrapLoop(ai, hand, joker, 1)

(***************************************************************************)
(* bot/game_logic.py: the Discard Advisor                                  *)
(***************************************************************************)
\* The runs of 3 or more consecutive ranks of a rank-sorted one-suit list; the list
\* is cut wherever the next rank is not the previous rank plus one.
RECURSIVE RunsFrom(_, _, _)
RunsFrom(cards, i, run) ==
    IF i > Len(cards) THEN (IF Len(run) >= 3 THEN <<run>> ELSE <<>>)
    ELSE IF run # <<>> /\ RankIdx(cards[i]) = RankIdx(run[Len(run)]) + 1
    THEN RunsFrom(cards, i + 1, Append(run, cards[i]))
    ELSE (IF Len(run) >= 3 THEN <<run>> ELSE <<>>) \o RunsFrom(cards, i + 1, <<cards[i]>>)

_find_complete_sequences(sorted_cards) == RunsFrom(sorted_cards, 1, <<>>)

\* In hundredths: 1.0 when the hand holds a same-suit card of the next or the
\* previous rank.
_sequence_contribution(hand, card, joker) ==
    IF \E c \in {hand[i] : i \in 1..Len(hand)} :
          /\ SuitOf(c).val = SuitOf(card).val
          /\ RankIdx(c) \in {RankIdx(card) - 1, RankIdx(card) + 1}
    THEN 100 ELSE 0

\* In hundredths: 1.0 when the hand holds two or more cards of the card's rank.
_set_contribution(hand, card) ==
    IF Count(hand, LAMBDA c : RankOf(c) = RankOf(card)) >= 2 THEN 100 ELSE 0

\* _identify_protected_cards with a pair taken for a complete set.
_identify_protected_cards_PairsProtected(hand, joker) ==
    LET sequences == Map(SuitGroups(hand),
                         LAMBDA suit_cards : _find_complete_sequences(SortedByRank(suit_cards)))
        in_sequence == {c \in {hand[i] : i \in 1..Len(hand)} :
                          \E g \in 1..Len(sequences) :
                             \E q \in 1..Len(sequences[g]) : In(c, sequences[g][q])}
        in_set == {c \in {hand[i] : i \in 1..Len(hand)} :
                     Count(hand, LAMBDA d : RankOf(d) = RankOf(c)) >= 2}
    IN  in_sequence \cup in_set

\* The set of the list the code returns.
_identify_protected_cards(hand, joker) ==
    LET sequences == Map(SuitGroups(hand),
                         LAMBDA suit_cards : _find_complete_sequences(SortedByRank(suit_cards)))
        in_sequence == {c \in {hand[i] : i \in 1..Len(hand)} :
                          \E g \in 1..Len(sequences) :
                             \E q \in 1..Len(sequences[g]) : In(c, sequences[g][q])}
        in_set == {c \in {hand[i] : i \in 1..Len(hand)} :
                     Count(hand, LAMBDA d : RankOf(d) = RankOf(c)) >= 3}
    IN  in_sequence \cup in_set

Max(a, b) == IF a >= b THEN a ELSE b

\* In hundredths.
_calculate_card_usefulness(hand, card, joker) ==
    LET seq_value   == _sequence_contribution(hand, card, joker)
        set_value   == _set_contribution(hand, card)
        joker_value == IF card = joker THEN 100 ELSE 0
    IN  Max(Max(seq_value, set_value), joker_value)

\* The numerator of the danger; its denominator is len(opponent_picks) + 1.
_calculate_discard_danger(card, opponent_picks, opponent_discards) ==
    LET rank == RankOf(card)
        suit == SuitOf(card).val
        rank_danger == Count(opponent_picks, LAMBDA c : RankOf(c) = rank)
        suit_danger == Count(opponent_picks, LAMBDA c : SuitOf(c).val = suit)
    IN  Max(rank_danger, suit_danger)

\* card_scores before the sort.  A score is in units of 1/(100*(len(opponent_picks)+1));
\* float('inf') is one unit more than the largest finite score, 1.0.
CardScores(hand, joker, opponent_picks, opponent_discards) ==
    LET protected_cards == _identify_protected_cards(hand, joker)
        denominator == Len(opponent_picks) + 1
    IN  Map(hand, LAMBDA card :
            IF card \in protected_cards
            THEN [item |-> card, key |-> 100 * denominator + 1]
            ELSE [item |-> card,
                  key  |-> _calculate_card_usefulness(hand, card, joker) * denominator
                           - 100 * _calculate_discard_danger(card, opponent_picks,
                                                             opponent_discards)])

\* suggest_discard with a sort that is not stable: of the cards with the lowest
\* score the last in hand order is returned.
suggest_discard_LastMinimum(hand, joker, picked_card, discard_pile, opponent_picks, opponent_discards) ==
    LET card_scores == StableSort(CardScores(hand, joker, opponent_picks,
                                             opponent_discards))
        lowest == SelectSeq(card_scores, LAMBDA p : p.key = card_scores[1].key)
        last == Item(lowest, -1)
    IN  IF hand = <<>> THEN Raise("IndexError") ELSE Return(last.val.item)

\* suggest_discard with the sort reversed: the highest score is returned.
suggest_discard_SortReversed(hand, joker, picked_card, discard_pile, opponent_picks, opponent_discards) ==
    LET card_scores == StableSort(CardScores(hand, joker, opponent_picks,
                                             opponent_discards))
        last == Item(card_scores, -1)
    IN  IF Raised(last) THEN last ELSE Return(last.val.item)

suggest_discard(hand, joker, picked_card, discard_pile, opponent_picks, opponent_discards) ==
    LET card_scores == StableSort(CardScores(hand, joker, opponent_picks,
                                             opponent_discards))
        first == Item(card_scores, 0)
    IN  IF Raised(first) THEN first ELSE Return(first.val.item)

(***************************************************************************)
(* bot/game_logic.py: the lists the advisors are passed.  A Python list is *)
(* passed by reference, so a statement of the callee that works in place   *)
(* on a parameter (append, sort, remove) is seen by the caller.  Each      *)
(* operator below is the record of the caller's lists as they are when the *)
(* call ends, got by running the callee's list statements in order.        *)
(***************************************************************************)
\* evaluate_hand_strength reads hand in for loops that append to the lists of fresh
\* dicts, and sorts each of those with sorted(), which makes a new list.
evaluate_hand_strength_lists(hand, joker) == [hand |-> hand]

suggest_initial_action_lists(hand, joker) == evaluate_hand_strength_lists(hand, joker)

\* suggest_pick_source iterates opponent_picks and opponent_discards to count them
\* into the object's dicts, and tests membership in hand; discard_pile is not read.
suggest_pick_source_lists(hand, joker, open_card, discard_pile, opponent_picks, opponent_discards) ==
    [hand |-> hand, discard_pile |-> discard_pile,
     opponent_picks |-> opponent_picks, opponent_discards |-> opponent_discards]

\* suggest_trap_card iterates hand; its list parameters are only read.
suggest_trap_card_lists(hand, joker, opponent_picks, opponent_discards) ==
    [hand |-> hand, opponent_picks |-> opponent_picks,
     opponent_discards |-> opponent_discards]

\* suggest_discard with hand.sort(key=score) in place of the sort of card_scores.
suggest_discard_lists_SortsHand(hand, joker, picked_card, discard_pile, opponent_picks, opponent_discards) ==
    LET card_scores == StableSort(CardScores(hand, joker, opponent_picks,
                                             opponent_discards))
    IN  [hand |-> Map(card_scores, LAMBDA p : p.item), discard_pile |-> discard_pile,
         opponent_picks |-> opponent_picks, opponent_discards |-> opponent_discards,
         card_scores |-> card_scores]

\* suggest_discard appends a (card, score) pair per card to the fresh list
\* card_scores and sorts that list in place; card_scores is the one list it changes.
suggest_discard_lists(hand, joker, picked_card, discard_pile, opponent_picks, opponent_discards) ==
    LET appended == CardScores(hand, joker, opponent_picks, opponent_discards)
    IN  [hand |-> hand, discard_pile |-> discard_pile,
         opponent_picks |-> opponent_picks, opponent_discards |-> opponent_discards,
         card_scores |-> StableSort(appended)]

(***************************************************************************)
(* bot/utils.py and the str methods the handlers use.  A message text is   *)
(* the sequence of its whitespace-separated words, a word the sequence of  *)
(* its characters.                                                         *)
(***************************************************************************)
Lowers == << "a","b","c","d","e","f","g","h","i","j","k","l","m",
             "n","o","p","q","r","s","t","u","v","w","x","y","z" >>

Uppers == << "A","B","C","D","E","F","G","H","I","J","K","L","M",
             "N","O","P","Q","R","S","T","U","V","W","X","Y","Z" >>

UpperChar(ch) == IF In(ch, Lowers) THEN Uppers[Index(Lowers, ch).val + 1] ELSE ch

LowerChar(ch) == IF In(ch, Uppers) THEN Lowers[Index(Uppers, ch).val + 1] ELSE ch

\* text.upper()
Upper(text) == Map(text, LAMBDA word : Map(word, UpperChar))

\* text.lower()
Lower(text) == Map(text, LAMBDA word : Map(word, LowerChar))

\* text.strip() as one str: the words with one blank between them
RECURSIVE Strip(_)
Strip(text) ==
    IF text = <<>> THEN <<>>
    ELSE IF Len(text) = 1 THEN text[1]
    ELSE text[1] \o <<" ">> \o Strip(Tail(text))

parse_cards(card_str) == Upper(card_str)

validate_card(card) ==
    IF Len(card) < 2 THEN FALSE
    ELSE In(RankOf(card), RANKS) /\ In(SuitOf(card).val, SUITS)

validate_cards(cards) == \A i \in 1..Len(cards) : validate_card(cards[i])

\* a < b for two tuples of ints of one length, as Python compares tuples
RECURSIVE TupleLess(_, _)
TupleLess(a, b) ==
    IF a = <<>> THEN FALSE
    ELSE IF Head(a) # Head(b) THEN Head(a) < Head(b)
    ELSE TupleLess(Tail(a), Tail(b))

\* (is_joker, rank_value, suit_value); the bool is_joker is 0 or 1.
calculate_card_value(card, joker) ==
    LET rank == RankOf(card)
        suit == SuitOf(card).val
        is_joker == IF card = joker THEN 1 ELSE 0
        rank_value == IF In(rank, RANKS) THEN Index(RANKS, rank).val ELSE -1
        suit_value == IF In(suit, SUITS) THEN Index(SUITS, suit).val ELSE -1
    IN  << is_joker, rank_value, suit_value >>

\* sorted(..., reverse=True) one insertion at a time: descending by key, cards of
\* equal key in their original order.
RECURSIVE InsertDescending(_, _, _)
InsertDescending(sorted, card, joker) ==
    IF sorted = <<>> THEN <<card>>
    ELSE IF ~ TupleLess(calculate_card_value(sorted[Len(sorted)], joker),
                        calculate_card_value(card, joker))
    THEN Append(sorted, card)
    ELSE Append(InsertDescending(SubSeq(sorted, 1, Len(sorted) - 1), card, joker),
                sorted[Len(sorted)])

\* [seq[-1], ..., seq[0]]
Reversed(seq) == [i \in 1..Len(seq) |-> seq[Len(seq) + 1 - i]]

\* sort_cards as sorted(cards, key=rank value)[::-1]: ascending by rank alone, then
\* the list reversed.
sort_cards_RankThenReversed(cards, joker) ==
    Reversed(SortedByRank(cards))

RECURSIVE sort_cards(_, _)
sort_cards(cards, joker) ==
    IF cards = <<>> THEN <<>>
    ELSE InsertDescending(sort_cards(SubSeq(cards, 1, Len(cards) - 1), joker),
                          cards[Len(cards)], joker)

\* The literals the handlers compare a text with.
NONE_TEXT == <<"n","o","n","e">>

PLAY == <<"P","l","a","y">>

DROP == <<"D","r","o","p">>

OPEN_DECK == <<"O","p","e","n"," ","D","e","c","k">>

CLOSED_DECK == <<"C","l","o","s","e","d"," ","D","e","c","k">>

START_COMMAND == <<"/","s","t","a","r","t">>

CANCEL_COMMAND == <<"/","c","a","n","c","e","l">>

UNKNOWN_CARD == <<"Unknown Card (from closed deck)">>

(***************************************************************************)
(* bot/handlers.py.  A handler is an operator on the RummyBotHandlers      *)
(* object h = [ai, user_sessions, conversation, reply], where reply holds  *)
(* the last message sent to each user.  Its value is the object after the  *)
(* handler has run and the conversation state the handler returns.         *)
(***************************************************************************)
\* GameState.reset assigns these eight attributes and leaves any other as it is.
GameState_reset(state) ==
    [ hand              |-> <<>>,
      joker             |-> None,
      discard_pile      |-> <<>>,
      opponent_picks    |-> <<>>,
      opponent_discards |-> <<>>,
      open_card         |-> None,
      picked_card       |-> None,
      trap_activated    |-> FALSE ] @@ state

\* GameState()
NewGameState == GameState_reset(<<>>)

NewRummyBotHandlers(users) ==
    [ ai            |-> NewRummyAI,
      user_sessions |-> EmptyDict,
      conversation  |-> [u \in users |-> END],
      reply         |-> [u \in users |-> [text |-> ""]] ]

Handled(h, ret) == [h |-> h, ret |-> ret]

reply_text(h, user_id, message) == [h EXCEPT !.reply[user_id] = message]

\* The reply of an except clause.
Error(what, e) == [text |-> what, e |-> e]

start(h, user_id) ==
    LET sessions ==
            IF user_id \in DOMAIN h.user_sessions
            THEN [h.user_sessions EXCEPT ![user_id] = GameState_reset(@)]
            ELSE h.user_sessions @@ (user_id :> NewGameState)
    IN  Handled(reply_text([h EXCEPT !.user_sessions = sessions], user_id,
                           [text |-> "Welcome to Rummy AI Assistant!"]),
                WAITING_FOR_HAND)

receive_hand(h, user_id, text) ==
    LET cards == parse_cards(text)
    IN  IF Len(cards) # 13
        THEN Handled(reply_text(h, user_id, [text |-> "Please enter exactly 13 cards."]),
                     WAITING_FOR_HAND)
        ELSE IF ~ validate_cards(cards)
        THEN Handled(reply_text(h, user_id, [text |-> "Invalid card format."]),
                     WAITING_FOR_HAND)
        ELSE IF user_id \notin DOMAIN h.user_sessions
        THEN Handled(reply_text(h, user_id,
                                Error("Error processing your hand", "KeyError")),
                     WAITING_FOR_HAND)
        ELSE Handled(reply_text([h EXCEPT !.user_sessions[user_id].hand = cards],
                                user_id, [text |-> "Got your hand."]),
                     WAITING_FOR_JOKER)

receive_joker(h, user_id, text) ==
    LET joker_text == Strip(Upper(text))
    IN  IF ~ validate_card(joker_text)
        THEN Handled(reply_text(h, user_id, [text |-> "Invalid joker card format."]),
                     WAITING_FOR_JOKER)
        ELSE IF user_id \notin DOMAIN h.user_sessions
        THEN Handled(reply_text(h, user_id, Error("Error processing joker", "KeyError")),
                     WAITING_FOR_JOKER)
        ELSE LET hand == h.user_sessions[user_id].hand
                 suggestion == suggest_initial_action(hand, joker_text)
             IN  Handled(reply_text([h EXCEPT !.user_sessions[user_id].joker = joker_text],
                                    user_id,
                                    [text |-> "Based on your hand, I suggest you",
                                     suggestion |-> suggestion]),
                         SHOWING_SUGGESTION)

\* The global name validate_card read in bot/handlers.py.  Line 18 imports
\* parse_cards, validate_cards, cards_to_str and sort_cards from .utils; no statement
\* of the module binds validate_card, so evaluating the name raises NameError.
handlers_validate_card(card) == Raise("NameError")

\* receive_joker with the name validate_card resolved as the imports of
\* bot/handlers.py leave it: the call is inside the try, so the exception is caught,
\* reported to the user, and the handler returns WAITING_FOR_JOKER.
receive_joker_AsImported(h, user_id, text) ==
    LET joker_text == Strip(Upper(text))
        valid == handlers_validate_card(joker_text)
    IN  IF Raised(valid)
        THEN Handled(reply_text(h, user_id, Error("Error processing joker", valid.exc)),
                     WAITING_FOR_JOKER)
        ELSE receive_joker(h, user_id, text)

handle_play_or_drop(h, user_id, text) ==
    LET decision == Strip(text)
    IN  IF decision \notin {PLAY, DROP}
        THEN Handled(reply_text(h, user_id,
                                [text |-> "Please choose either 'Play' or 'Drop'."]),
                     SHOWING_SUGGESTION)
        ELSE IF decision = DROP
        THEN Handled(reply_text(h, user_id, [text |-> "You chose to Drop. Game ended."]),
                     END)
        ELSE Handled(reply_text(h, user_id, [text |-> "You chose to Play."]),
                     WAITING_FOR_DISCARD_PILE)

\* The body shared by receive_discard_pile, receive_opponent_picks and
\* receive_opponent_discards: the list is stored in the attribute `field`.
ReceiveCardList(h, user_id, text, field, what, same, next) ==
    LET lowered == Lower(text)
        cards == IF Strip(lowered) = NONE_TEXT THEN <<>> ELSE parse_cards(lowered)
    IN  IF ~ validate_cards(cards)
        THEN Handled(reply_text(h, user_id, [text |-> "Invalid card format."]), same)
        ELSE IF user_id \notin DOMAIN h.user_sessions
        THEN Handled(reply_text(h, user_id, Error(what, "KeyError")), same)
        ELSE Handled(reply_text([h EXCEPT !.user_sessions[user_id][field] = cards],
                                user_id, [text |-> "Now please enter"]),
                     next)

receive_discard_pile(h, user_id, text) ==
    ReceiveCardList(h, user_id, text, "discard_pile", "Error processing discard pile",
                    WAITING_FOR_DISCARD_PILE, WAITING_FOR_OPPONENT_PICKS)

receive_opponent_picks(h, user_id, text) ==
    ReceiveCardList(h, user_id, text, "opponent_picks", "Error processing opponent picks",
                    WAITING_FOR_OPPONENT_PICKS, WAITING_FOR_OPPONENT_DISCARDS)

receive_opponent_discards(h, user_id, text) ==
    ReceiveCardList(h, user_id, text, "opponent_discards",
                    "Error processing opponent discards",
                    WAITING_FOR_OPPONENT_DISCARDS, WAITING_FOR_OPEN_CARD)

\* The except clause of receive_open_card, reached with the object as it is then.
OpenCardFailed(h, user_id, e) ==
    Handled(reply_text(h, user_id, Error("Error processing open card", e)),
            WAITING_FOR_OPEN_CARD)

\* The end of receive_open_card: the reply, and the suggested discard stored.
OpenCardComplete(h, user_id, state, pick_source, discard_suggestion) ==
    Handled(reply_text([h EXCEPT !.user_sessions[user_id] =
                            ("suggested_discard" :> discard_suggestion) @@ state],
                       user_id,
                       [text |-> "Game Setup Complete!",
                        pick_source |-> pick_source,
                        discard_suggestion |-> discard_suggestion,
                        trap |-> state.trap_activated]),
            GAME_ACTIVE)

\* receive_open_card with state.trap_activated left as it was when a trap card is
\* returned.
OpenCardDiscard_FlagNotSet(h, user_id, state, pick_source, trap_card, discard) ==
    IF trap_card # None
    THEN OpenCardComplete(h, user_id, state, pick_source, trap_card)
    ELSE IF Raised(discard)
    THEN OpenCardFailed([h EXCEPT !.user_sessions[user_id].trap_activated = FALSE],
                        user_id, discard.exc)
    ELSE OpenCardComplete(h, user_id, [state EXCEPT !.trap_activated = FALSE],
                          pick_source, discard.val)

\* receive_open_card from the branch on trap_card; h holds the RummyAI object as
\* suggest_trap_card left it.
OpenCardDiscard(h, user_id, state, pick_source, trap_card, discard) ==
    IF trap_card # None
    THEN OpenCardComplete(h, user_id, [state EXCEPT !.trap_activated = TRUE],
                          pick_source, trap_card)
    ELSE IF Raised(discard)
    THEN OpenCardFailed([h EXCEPT !.user_sessions[user_id].trap_activated = FALSE],
                        user_id, discard.exc)
    ELSE OpenCardComplete(h, user_id, [state EXCEPT !.trap_activated = FALSE],
                          pick_source, discard.val)

\* receive_open_card from the call of suggest_trap_card.
OpenCardTrap(h, user_id, state, pick_source, trap_card) ==
    IF trap_card.exc # ""
    THEN OpenCardFailed([h EXCEPT !.ai = trap_card.ai], user_id, trap_card.exc)
    ELSE OpenCardDiscard([h EXCEPT !.ai = trap_card.ai], user_id, state,
                         pick_source, trap_card.val,
                         suggest_discard(state.hand, state.joker, None,
                                         state.discard_pile, state.opponent_picks,
                                         state.opponent_discards))

\* receive_open_card from the call of suggest_pick_source.
OpenCardPickSource(h, user_id, state, pick_source) ==
    IF pick_source.exc # ""
    THEN OpenCardFailed([h EXCEPT !.ai = pick_source.ai], user_id, pick_source.exc)
    ELSE OpenCardTrap(h, user_id, state, pick_source.val,
                      suggest_trap_card(pick_source.ai, state.hand, state.joker,
                                        state.opponent_picks, state.opponent_discards))

\* receive_open_card once the card is accepted: state.open_card = card is done in h.
OpenCardAccepted(h, user_id, state) ==
    OpenCardPickSource(h, user_id, state,
                       suggest_pick_source(h.ai, state.hand, state.joker,
                                           state.open_card, state.discard_pile,
                                           state.opponent_picks,
                                           state.opponent_discards))

receive_open_card(h, user_id, text) ==
    LET open_card_text == Strip(Lower(text))
        card == IF open_card_text = NONE_TEXT THEN None
                ELSE Strip(Upper(Lower(text)))
    IN  IF card # None /\ ~ validate_card(card)
        THEN Handled(reply_text(h, user_id, [text |-> "Invalid card format."]),
                     WAITING_FOR_OPEN_CARD)
        ELSE IF user_id \notin DOMAIN h.user_sessions
        THEN OpenCardFailed(h, user_id, "KeyError")
        ELSE OpenCardAccepted([h EXCEPT !.user_sessions[user_id].open_card = card],
                              user_id,
                              [h.user_sessions[user_id] EXCEPT !.open_card = card])

\* handle_pick_source without line 310: the open card stays where it is after it
\* is taken.
handle_pick_source_OpenCardKept(h, user_id, text) ==
    LET pick_source == Strip(text)
    IN  IF user_id \notin DOMAIN h.user_sessions THEN Handled(h, GAME_ACTIVE)
        ELSE
        LET state == h.user_sessions[user_id]
        IN  IF pick_source \notin {OPEN_DECK, CLOSED_DECK}
            THEN Handled(reply_text(h, user_id,
                            [text |-> "Please select either 'Open Deck' or 'Closed Deck'."]),
                         GAME_ACTIVE)
            ELSE
            LET picked ==
                    IF pick_source = OPEN_DECK /\ ~ Falsy(state.open_card)
                    THEN [state EXCEPT !.picked_card = state.open_card,
                                       !.hand = Append(@, state.open_card)]
                    ELSE [state EXCEPT !.picked_card = UNKNOWN_CARD]
            IN  Handled(reply_text([h EXCEPT !.user_sessions[user_id] = picked], user_id,
                                   [text |-> "You picked from",
                                    picked_card |-> picked.picked_card]),
                        GAME_ACTIVE)

\* handle_pick_source has no try: a missing session is a KeyError that leaves the
\* handler, and the conversation stays in its state.
handle_pick_source(h, user_id, text) ==
    LET pick_source == Strip(text)
    IN  IF user_id \notin DOMAIN h.user_sessions THEN Handled(h, GAME_ACTIVE)
        ELSE
        LET state == h.user_sessions[user_id]
        IN  IF pick_source \notin {OPEN_DECK, CLOSED_DECK}
            THEN Handled(reply_text(h, user_id,
                            [text |-> "Please select either 'Open Deck' or 'Closed Deck'."]),
                         GAME_ACTIVE)
            ELSE
            LET picked ==
                    IF pick_source = OPEN_DECK /\ ~ Falsy(state.open_card)
                    THEN [state EXCEPT !.picked_card = state.open_card,
                                       !.hand = Append(@, state.open_card),
                                       !.open_card = None]
                    ELSE [state EXCEPT !.picked_card = UNKNOWN_CARD]
            IN  Handled(reply_text([h EXCEPT !.user_sessions[user_id] = picked], user_id,
                                   [text |-> "You picked from",
                                    picked_card |-> picked.picked_card]),
                        GAME_ACTIVE)

\* list.remove(x): the first x is removed
Remove(seq, x) ==
    LET i == Index(seq, x).val + 1
    IN  SubSeq(seq, 1, i - 1) \o SubSeq(seq, i + 1, Len(seq))

\* handle_discard with the turn's reset (lines 364-365) done before the selection
\* is validated, so that a rejected selection disarms the trap.
handle_discard_ResetsBeforeValidation(h, user_id, text, random) ==
    LET discard_card == Strip(Upper(text))
    IN  IF user_id \notin DOMAIN h.user_sessions THEN Handled(h, GAME_ACTIVE)
        ELSE
        LET state == [h.user_sessions[user_id] EXCEPT !.picked_card = None,
                                                      !.trap_activated = FALSE]
        IN  IF ~ validate_card(discard_card) \/ ~ In(discard_card, state.hand)
            THEN Handled(reply_text([h EXCEPT !.user_sessions[user_id] = state],
                                    user_id, [text |-> "Invalid card selection."]),
                         GAME_ACTIVE)
            ELSE
            LET discarded == [state EXCEPT !.hand = Remove(@, discard_card),
                                           !.discard_pile = Append(@, discard_card),
                                           !.open_card = discard_card]
            IN  Handled(reply_text([h EXCEPT !.user_sessions[user_id] = discarded],
                                   user_id,
                                   [text |-> "You discarded",
                                    discard_card |-> discard_card,
                                    trap_result |-> ""]),
                        GAME_ACTIVE)

\* random is the value of random.random(), in hundredths.
handle_discard(h, user_id, text, random) ==
    LET discard_card == Strip(Upper(text))
    IN  IF user_id \notin DOMAIN h.user_sessions THEN Handled(h, GAME_ACTIVE)
        ELSE
        LET state == h.user_sessions[user_id]
        IN  IF ~ validate_card(discard_card) \/ ~ In(discard_card, state.hand)
            THEN Handled(reply_text(h, user_id, [text |-> "Invalid card selection."]),
                         GAME_ACTIVE)
            ELSE
            LET trap_result ==
                    IF state.trap_activated /\ discard_card = state.suggested_discard
                    THEN IF random > 70 THEN "The opponent fell for your trap!"
                         ELSE "The opponent ignored your trap."
                    ELSE ""
                discarded == [state EXCEPT !.hand = Remove(@, discard_card),
                                           !.discard_pile = Append(@, discard_card),
                                           !.open_card = discard_card,
                                           !.picked_card = None,
                                           !.trap_activated = FALSE]
            IN  Handled(reply_text([h EXCEPT !.user_sessions[user_id] = discarded],
                                   user_id,
                                   [text |-> "You discarded",
                                    discard_card |-> discard_card,
                                    trap_result |-> trap_result]),
                        GAME_ACTIVE)

cancel(h, user_id) ==
    LET sessions == [u \in DOMAIN h.user_sessions \ {user_id} |-> h.user_sessions[u]]
    IN  Handled(reply_text([h EXCEPT !.user_sessions = sessions], user_id,
                           [text |-> "Game cancelled."]),
                END)

(***************************************************************************)
(* get_conversation_handler and main.py: the handler an update reaches     *)
(***************************************************************************)
\* filters.COMMAND: the text starts with a bot command
IsCommand(text) == text # <<>> /\ text[1] # <<>> /\ text[1][1] = "/"

\* CommandHandler(command): the first word is the command, in any case
Command(text, command) == IsCommand(text) /\ Map(text[1], LowerChar) = command

\* filters.Regex("^(Open Deck|Closed Deck)$")
PickSourceRegex(text) == Strip(text) \in {OPEN_DECK, CLOSED_DECK}

\* The first handler of the state's list whose filter takes the text; "" if none.
StateHandler(state, text) ==
    IF state = GAME_ACTIVE /\ PickSourceRegex(text) THEN "handle_pick_source"
    ELSE IF IsCommand(text) THEN ""
    ELSE CASE state = WAITING_FOR_HAND              -> "receive_hand"
           [] state = WAITING_FOR_JOKER             -> "receive_joker"
           [] state = SHOWING_SUGGESTION            -> "handle_play_or_drop"
           [] state = WAITING_FOR_DISCARD_PILE      -> "receive_discard_pile"
           [] state = WAITING_FOR_OPPONENT_PICKS    -> "receive_opponent_picks"
           [] state = WAITING_FOR_OPPONENT_DISCARDS -> "receive_opponent_discards"
           [] state = WAITING_FOR_OPEN_CARD         -> "receive_open_card"
           [] state = GAME_ACTIVE                   -> "handle_discard"
           [] OTHER                                 -> ""

\* The ConversationHandler is the first handler of the application.  Outside a
\* conversation it takes /start as its entry point; inside one it tries the state's
\* handlers and then the fallback /cancel.  An update it does not take goes to the
\* application's later handlers, of which CommandHandler("start") takes /start.
Handler(h, user_id, text) ==
    LET state == h.conversation[user_id]
    IN  IF state = END
        THEN (IF Command(text, START_COMMAND) THEN "start" ELSE "")
        ELSE IF StateHandler(state, text) # "" THEN StateHandler(state, text)
        ELSE IF Command(text, CANCEL_COMMAND) THEN "cancel"
        ELSE IF Command(text, START_COMMAND) THEN "start"
        ELSE ""

\* The handler `name` runs on the update.
RunHandler(h, name, user_id, text, random) ==
    CASE name = "start"                     -> start(h, user_id)
      [] name = "receive_hand"              -> receive_hand(h, user_id, text)
      [] name = "receive_joker"             -> receive_joker(h, user_id, text)
      [] name = "handle_play_or_drop"       -> handle_play_or_drop(h, user_id, text)
      [] name = "receive_discard_pile"      -> receive_discard_pile(h, user_id, text)
      [] name = "receive_opponent_picks"    -> receive_opponent_picks(h, user_id, text)
      [] name = "receive_opponent_discards" -> receive_opponent_discards(h, user_id, text)
      [] name = "receive_open_card"         -> receive_open_card(h, user_id, text)
      [] name = "handle_pick_source"        -> handle_pick_source(h, user_id, text)
      [] name = "handle_discard"            -> handle_discard(h, user_id, text, random)
      [] name = "cancel"                    -> cancel(h, user_id)
      [] OTHER                              -> Handled(h, h.conversation[user_id])

\* What becomes of the value the handler returns.  The ConversationHandler makes
\* it the conversation's state; the application's CommandHandler("start"), which
\* takes /start inside a conversation, drops it.
AfterHandler(state, name, handled, user_id) ==
    IF name = "start" /\ state # END THEN handled.h
    ELSE [handled.h EXCEPT !.conversation[user_id] = handled.ret]

\* The object after the update has been handled.
process_update(h, user_id, text, random) ==
    AfterHandler(h.conversation[user_id], Handler(h, user_id, text),
                 RunHandler(h, Handler(h, user_id, text), user_id, text, random),
                 user_id)

(***************************************************************************)
(* State                                                                   *)
(***************************************************************************)
VARIABLES
    ai,             \* RummyBotHandlers.ai: the one RummyAI object
    user_sessions,  \* RummyBotHandlers.user_sessions: user_id -> GameState
    conversation,   \* the ConversationHandler's state of each user's conversation
    reply,          \* the last reply_text sent to each user
    call,           \* the last call made on the RummyAI object and its outcome
    twin            \* a second RummyBotHandlers object, run beside the first

vars == <<ai, user_sessions, conversation, reply, call, twin>>

(***************************************************************************)
(* Inputs                                                                  *)
(***************************************************************************)
MaxHandLen == 3

MaxPicks == 3

\* Sequences over S of length 0..n
SeqsUpTo(S, n) == UNION {[1..k -> S] : k \in 0..n}

\* Cards the short hands are made of: a run 5H 6H 7H and a set 5H 5S 5D.
HandDeck == { <<"5","H">>, <<"6","H">>, <<"7","H">>, <<"5","S">>, <<"5","D">> }

\* The hand of the /start prompt: runs 7C 8C 9C and JH QH KH, a set of 3s.
PromptHand ==
    << <<"7","C">>, <<"8","C">>, <<"9","C">>, <<"K","H">>, <<"Q","H">>, <<"J","H">>,
       <<"3","S">>, <<"3","D">>, <<"3","C">>, <<"5","S">>, <<"6","S">>, <<"2","D">>,
       <<"J","C">> >>

\* 13 ranks, each once; no two same-suit cards of adjacent ranks; all four suits twice.
ScatteredHand ==
    << <<"2","H">>, <<"3","D">>, <<"4","C">>, <<"5","S">>, <<"6","H">>, <<"7","D">>,
       <<"8","C">>, <<"9","S">>, <<"1","0","H">>, <<"J","D">>, <<"Q","C">>, <<"K","S">>,
       <<"A","H">> >>

\* 13 ranks, each once; no two same-suit cards of adjacent ranks; one suit twice only:
\* no such hand exists with fewer than one suit held twice.
TwoSuitHand ==
    << <<"2","H">>, <<"3","D">>, <<"4","H">>, <<"5","D">>, <<"6","H">>, <<"7","D">>,
       <<"8","H">>, <<"9","D">>, <<"1","0","H">>, <<"J","D">>, <<"Q","H">>, <<"K","D">>,
       <<"A","H">> >>

\* 12 cards in melds (runs 2H..7H and 9S 10S JS, a set of queens) and a stray 4C.
OneStrayHand ==
    << <<"2","H">>, <<"3","H">>, <<"4","H">>, <<"5","H">>, <<"6","H">>, <<"7","H">>,
       <<"4","C">>, <<"9","S">>, <<"1","0","S">>, <<"J","S">>, <<"Q","D">>, <<"Q","C">>,
       <<"Q","S">> >>

\* A hand dealt from two packs: 6H twice inside the hearts 5H..9H, a run of five
\* spades, a pair of kings.
TwoPackHand ==
    << <<"5","H">>, <<"6","H">>, <<"6","H">>, <<"7","H">>, <<"8","H">>, <<"9","H">>,
       <<"2","S">>, <<"3","S">>, <<"4","S">>, <<"5","S">>, <<"6","S">>, <<"K","D">>,
       <<"K","C">> >>

DealtHands == { PromptHand, ScatteredHand, TwoSuitHand, OneStrayHand, TwoPackHand }

\* The 52 cards of one pack.
Deck == { Fmt(RANKS[r], SUITS[s]) : r \in 1..Len(RANKS), s \in 1..Len(SUITS) }

\* Every hand of one card.
SingleCardHands == { <<card>> : card \in Deck }

Hands == SeqsUpTo(HandDeck, MaxHandLen) \cup DealtHands \cup SingleCardHands

\* Cards at the two ends of the rank order, for the meld-completion test.
EdgeDeck == { <<"A","S">>, <<"2","S">>, <<"3","S">>, <<"Q","S">>, <<"K","S">> }

EdgeHands == SeqsUpTo(EdgeDeck, MaxHandLen)

EdgeCards == EdgeDeck \cup { <<"4","S">>, <<"J","S">>, <<"5","S">> }

Jokers == { <<"7","D">>, <<"5","H">> }

\* Cards of the opponent's observed picks: three hearts in a row.
PickDeck == { <<"5","H">>, <<"6","H">>, <<"7","H">> }

\* Lists of valid tokens: every list over PickDeck, and two cards of one rank.
PickLists == SeqsUpTo(PickDeck, MaxPicks) \cup { << <<"5","H">>, <<"5","S">> >> }

\* Lists holding a token whose rank is not in RANKS.
MalformedPickLists == { << <<"1","H">> >>, << <<"5","H">>, <<"1","H">> >> }

DiscardLists == { <<>>, << <<"9","S">> >> }

NoCall == [op |-> "none"]

(***************************************************************************)
(* SpecAdvisor: the advisors that read no state of the RummyAI object,     *)
(* called on bounded inputs.  A call is made when no call is recorded; its *)
(* arguments and its outcome stay in `call` until the caller drops them.   *)
(***************************************************************************)
Users == { "A", "B" }

\* The RummyBotHandlers object as one value.
Bot == [ai |-> ai, user_sessions |-> user_sessions,
        conversation |-> conversation, reply |-> reply]

HandlersInit ==
    /\ ai = NewRummyBotHandlers(Users).ai
    /\ user_sessions = NewRummyBotHandlers(Users).user_sessions
    /\ conversation = NewRummyBotHandlers(Users).conversation
    /\ reply = NewRummyBotHandlers(Users).reply
    /\ twin = NewRummyBotHandlers(Users)

AdvisorInit == HandlersInit /\ call = NoCall

CallEvaluateHandStrength ==
    /\ call = NoCall
    /\ \E hand \in Hands, joker \in Jokers \cup {None} :
          call' = [op |-> "evaluate_hand_strength", hand |-> hand, joker |-> joker,
                   result |-> Return(evaluate_hand_strength(hand, joker))]
    /\ UNCHANGED <<ai, user_sessions, conversation, reply, twin>>

CallSuggestInitialAction ==
    /\ call = NoCall
    /\ \E hand \in Hands, joker \in Jokers \cup {None} :
          call' = [op |-> "suggest_initial_action", hand |-> hand, joker |-> joker,
                   result |-> Return(suggest_initial_action(hand, joker))]
    /\ UNCHANGED <<ai, user_sessions, conversation, reply, twin>>

CallSuggestDiscard ==
    /\ call = NoCall
    /\ \E hand \in Hands, joker \in Jokers,
          opponent_picks \in PickLists, opponent_discards \in DiscardLists :
          call' = [op |-> "suggest_discard", hand |-> hand, joker |-> joker,
                   opponent_picks |-> opponent_picks,
                   opponent_discards |-> opponent_discards,
                   result |-> suggest_discard(hand, joker, None, <<>>,
                                              opponent_picks, opponent_discards)]
    /\ UNCHANGED <<ai, user_sessions, conversation, reply, twin>>

Call_count_pure_sequences ==
    /\ call = NoCall
    /\ \E hand \in Hands :
          call' = [op |-> "_count_pure_sequences", hand |-> hand,
                   result |-> Return(_count_pure_sequences(hand))]
    /\ UNCHANGED <<ai, user_sessions, conversation, reply, twin>>

Call_identify_protected_cards ==
    /\ call = NoCall
    /\ \E hand \in Hands, joker \in Jokers :
          call' = [op |-> "_identify_protected_cards", hand |-> hand, joker |-> joker,
                   result |-> Return(_identify_protected_cards(hand, joker))]
    /\ UNCHANGED <<ai, user_sessions, conversation, reply, twin>>

CallSortCards ==
    /\ call = NoCall
    /\ \E cards \in Hands, joker \in Jokers \cup {None} :
          call' = [op |-> "sort_cards", cards |-> cards, joker |-> joker,
                   result |-> Return(sort_cards(cards, joker)),
                   resorted |-> Return(sort_cards(sort_cards(cards, joker), joker))]
    /\ UNCHANGED <<ai, user_sessions, conversation, reply, twin>>

Call_does_card_complete_group ==
    /\ call = NoCall
    /\ \E hand \in EdgeHands \cup Hands, card \in EdgeCards, joker \in Jokers :
          call' = [op |-> "_does_card_complete_group", hand |-> hand, card |-> card,
                   joker |-> joker,
                   result |-> _does_card_complete_group(hand, card, joker)]
    /\ UNCHANGED <<ai, user_sessions, conversation, reply, twin>>

\* The caller takes the outcome; the next call can be made.
DropResult ==
    /\ call # NoCall
    /\ call' = NoCall
    /\ UNCHANGED <<ai, user_sessions, conversation, reply, twin>>

AdvisorNext ==
    \/ CallEvaluateHandStrength
    \/ CallSuggestInitialAction
    \/ CallSuggestDiscard
    \/ Call_count_pure_sequences
    \/ Call_identify_protected_cards
    \/ CallSortCards
    \/ Call_does_card_complete_group
    \/ DropResult

SpecAdvisor == AdvisorInit /\ [][AdvisorNext]_vars

(***************************************************************************)
(* SpecAI: one RummyAI object and the advisors that read or write its      *)
(* Opponent Model and trap history                                         *)
(***************************************************************************)
MaxObserved == 4

\* Hands given to the stateful advisors.
AIHands == { << <<"5","H">>, <<"6","H">>, <<"7","H">> >>,
             << <<"A","S">>, <<"2","S">>, <<"5","H">>, <<"5","D">> >>,
             PromptHand }

OpenCards == { None, <<"5","S">>, <<"K","H">>, <<"3","S">> }

RECURSIVE SumOver(_, _)
SumOver(d, keys) ==
    IF keys = {} THEN 0
    ELSE LET k == CHOOSE x \in keys : TRUE IN d[k] + SumOver(d, keys \ {k})

\* How many observations and traps the object has counted.
Observed(a) ==
    SumOver(a.opponent_behavior.open_picks, DOMAIN a.opponent_behavior.open_picks)
    + SumOver(a.opponent_behavior.discards, DOMAIN a.opponent_behavior.discards)
    + SumOver(a.trap_history, DOMAIN a.trap_history)

CallSuggestPickSource ==
    /\ call = NoCall
    /\ \E hand \in AIHands, joker \in Jokers, open_card \in OpenCards,
          opponent_picks \in PickLists \cup MalformedPickLists,
          opponent_discards \in DiscardLists :
          LET r == suggest_pick_source(ai, hand, joker, open_card, <<>>,
                                       opponent_picks, opponent_discards)
          IN  /\ Observed(r.ai) <= MaxObserved
              /\ ai' = r.ai
              /\ call' = [op |-> "suggest_pick_source", before |-> ai,
                          hand |-> hand, joker |-> joker, open_card |-> open_card,
                          opponent_picks |-> opponent_picks,
                          opponent_discards |-> opponent_discards,
                          result |-> [x \in DOMAIN r \ {"ai"} |-> r[x]]]
    /\ UNCHANGED <<user_sessions, conversation, reply, twin>>

CallSuggestTrapCard ==
    /\ call = NoCall
    /\ \E hand \in AIHands, joker \in Jokers, opponent_picks \in DiscardLists,
          opponent_discards \in DiscardLists :
          LET r == suggest_trap_card(ai, hand, joker, opponent_picks, opponent_discards)
          IN  /\ Observed(r.ai) <= MaxObserved
              /\ ai' = r.ai
              /\ call' = [op |-> "suggest_trap_card", before |-> ai,
                          hand |-> hand, joker |-> joker,
                          opponent_picks |-> opponent_picks,
                          opponent_discards |-> opponent_discards,
                          result |-> [x \in DOMAIN r \ {"ai"} |-> r[x]]]
    /\ UNCHANGED <<user_sessions, conversation, reply, twin>>

Call_update_opponent_behavior ==
    /\ call = NoCall
    /\ \E opponent_picks \in PickLists \cup MalformedPickLists,
          opponent_discards \in DiscardLists :
          LET r == _update_opponent_behavior(ai, opponent_picks, opponent_discards)
          IN  /\ Observed(r.ai) <= MaxObserved
              /\ ai' = r.ai
              /\ call' = [op |-> "_update_opponent_behavior", before |-> ai,
                          opponent_picks |-> opponent_picks,
                          opponent_discards |-> opponent_discards,
                          result |-> [exc |-> r.exc]]
    /\ UNCHANGED <<user_sessions, conversation, reply, twin>>

AINext ==
    \/ Call_update_opponent_behavior
    \/ CallSuggestPickSource
    \/ CallSuggestTrapCard
    \/ DropResult

SpecAI == AdvisorInit /\ [][AINext]_vars

(***************************************************************************)
(* SpecFrame: the five advisors called with lists the caller keeps; the    *)
(* call records the lists passed and the lists as they are on return.      *)
(***************************************************************************)
FrameHands == { PromptHand, TwoPackHand } \cup SeqsUpTo(HandDeck, 2)

FramePicks == { <<>>, << <<"5","H">>, <<"5","S">> >>,
                << <<"5","H">>, <<"6","H">>, <<"7","H">> >> }

FramePiles == { <<>>, << <<"9","S">>, <<"2","D">> >> }

FrameEvaluateHandStrength ==
    /\ call = NoCall
    /\ \E hand \in FrameHands, joker \in Jokers :
          call' = [op |-> "evaluate_hand_strength",
                   passed |-> [hand |-> hand],
                   after  |-> evaluate_hand_strength_lists(hand, joker),
                   result |-> Return(evaluate_hand_strength(hand, joker))]
    /\ UNCHANGED <<ai, user_sessions, conversation, reply, twin>>

FrameSuggestInitialAction ==
    /\ call = NoCall
    /\ \E hand \in FrameHands, joker \in Jokers :
          call' = [op |-> "suggest_initial_action",
                   passed |-> [hand |-> hand],
                   after  |-> suggest_initial_action_lists(hand, joker),
                   result |-> Return(suggest_initial_action(hand, joker))]
    /\ UNCHANGED <<ai, user_sessions, conversation, reply, twin>>

FrameSuggestPickSource ==
    /\ call = NoCall
    /\ \E hand \in AIHands, joker \in Jokers, open_card \in OpenCards,
          discard_pile \in FramePiles, opponent_picks \in FramePicks,
          opponent_discards \in DiscardLists :
          LET r == suggest_pick_source(ai, hand, joker, open_card, discard_pile,
                                       opponent_picks, opponent_discards)
          IN  /\ Observed(r.ai) <= MaxObserved
              /\ ai' = r.ai
              /\ call' = [op |-> "suggest_pick_source",
                          passed |-> [hand |-> hand, discard_pile |-> discard_pile,
                                      opponent_picks |-> opponent_picks,
                                      opponent_discards |-> opponent_discards],
                          after  |-> suggest_pick_source_lists(hand, joker, open_card,
                                         discard_pile, opponent_picks, opponent_discards),
                          result |-> [x \in DOMAIN r \ {"ai"} |-> r[x]]]
    /\ UNCHANGED <<user_sessions, conversation, reply, twin>>

FrameSuggestTrapCard ==
    /\ call = NoCall
    /\ \E hand \in AIHands, joker \in Jokers, opponent_picks \in FramePicks,
          opponent_discards \in DiscardLists :
          LET r == suggest_trap_card(ai, hand, joker, opponent_picks, opponent_discards)
          IN  /\ Observed(r.ai) <= MaxObserved
              /\ ai' = r.ai
              /\ call' = [op |-> "suggest_trap_card",
                          passed |-> [hand |-> hand, opponent_picks |-> opponent_picks,
                                      opponent_discards |-> opponent_discards],
                          after  |-> suggest_trap_card_lists(hand, joker, opponent_picks,
                                                             opponent_discards),
                          result |-> [x \in DOMAIN r \ {"ai"} |-> r[x]]]
    /\ UNCHANGED <<user_sessions, conversation, reply, twin>>

FrameSuggestDiscard ==
    /\ call = NoCall
    /\ \E hand \in FrameHands \ {<<>>}, joker \in Jokers, discard_pile \in FramePiles,
          opponent_picks \in FramePicks, opponent_discards \in DiscardLists :
          LET lists == suggest_discard_lists(hand, joker, None, discard_pile,
                                             opponent_picks, opponent_discards)
          IN  call' = [op |-> "suggest_discard",
                       passed |-> [hand |-> hand, discard_pile |-> discard_pile,
                                   opponent_picks |-> opponent_picks,
                                   opponent_discards |-> opponent_discards],
                       after  |-> [x \in DOMAIN lists \ {"card_scores"} |-> lists[x]],
                       result |-> Return(lists.card_scores[1].item)]
    /\ UNCHANGED <<ai, user_sessions, conversation, reply, twin>>

FrameNext ==
    \/ FrameEvaluateHandStrength
    \/ FrameSuggestInitialAction
    \/ FrameSuggestPickSource
    \/ FrameSuggestTrapCard
    \/ FrameSuggestDiscard
    \/ DropResult

SpecFrame == AdvisorInit /\ [][FrameNext]_vars

(***************************************************************************)
(* Spec: the bot in polling mode.  Each step is one update, a text message *)
(* of one user, taken by the handler the routing gives it.                 *)
(***************************************************************************)
MaxPile == 1

START_TEXT == << START_COMMAND >>

CANCEL_TEXT == << CANCEL_COMMAND >>

NONE_MESSAGE == << NONE_TEXT >>

OPEN_DECK_TEXT == << <<"O","p","e","n">>, <<"D","e","c","k">> >>

CLOSED_DECK_TEXT == << <<"C","l","o","s","e","d">>, <<"D","e","c","k">> >>

\* The texts a user sends at each step of the conversation.
HandTexts ==
    { Lower(PromptHand),
      << <<"5","h">>, <<"6","h">>, <<"7","h">> >>,
      [Lower(PromptHand) EXCEPT ![13] = <<"1","h">>] }

JokerTexts == { << <<"7","d">> >>, << <<"1","H">> >> }

PlayOrDropTexts == { << PLAY >>, << DROP >>, NONE_MESSAGE }

DiscardPileTexts == { NONE_MESSAGE, << <<"1","H">> >> }

OpponentPicksTexts == { NONE_MESSAGE, << <<"5","h">>, <<"6","h">>, <<"7","h">> >> }

OpponentDiscardsTexts == { NONE_MESSAGE }

OpenCardTexts == { NONE_MESSAGE, << <<"9","h">> >>, << <<"k","d">> >> }

PickSourceTexts == { OPEN_DECK_TEXT, CLOSED_DECK_TEXT }

DiscardTexts ==
    { << <<"2","d">> >>, << <<"9","h">> >>, << <<"k","h">> >>, << <<"1","h">> >> }

\* Values of random.random(), in hundredths.
Randoms == { 50, 90 }

\* The counters of the RummyAI object and the discard piles stay within the bounds.
Bounded(h, observed) ==
    /\ Observed(h.ai) <= observed
    /\ \A u \in DOMAIN h.user_sessions : Len(h.user_sessions[u].discard_pile) <= MaxPile

SetBot(h) ==
    /\ ai' = h.ai
    /\ user_sessions' = h.user_sessions
    /\ conversation' = h.conversation
    /\ reply' = h.reply

\* A handler of the conversation has run: the conversation enters the state it
\* returned.
Enter(handled, user_id) == [handled.h EXCEPT !.conversation[user_id] = handled.ret]

\* The object h is what handling an update has made of the bot.
Deliver(h) ==
    /\ Bounded(h, MaxObserved)
    /\ SetBot(h)
    /\ UNCHANGED <<call, twin>>

Start ==
    \E u \in Users :
        /\ Handler(Bot, u, START_TEXT) = "start"
        /\ Deliver(IF conversation[u] = END THEN Enter(start(Bot, u), u)
                   ELSE start(Bot, u).h)

ReceiveHand ==
    \E u \in Users, text \in HandTexts :
        /\ Handler(Bot, u, text) = "receive_hand"
        /\ Deliver(Enter(receive_hand(Bot, u, text), u))

ReceiveJoker ==
    \E u \in Users, text \in JokerTexts :
        /\ Handler(Bot, u, text) = "receive_joker"
        /\ Deliver(Enter(receive_joker(Bot, u, text), u))

HandlePlayOrDrop ==
    \E u \in Users, text \in PlayOrDropTexts :
        /\ Handler(Bot, u, text) = "handle_play_or_drop"
        /\ Deliver(Enter(handle_play_or_drop(Bot, u, text), u))

ReceiveDiscardPile ==
    \E u \in Users, text \in DiscardPileTexts :
        /\ Handler(Bot, u, text) = "receive_discard_pile"
        /\ Deliver(Enter(receive_discard_pile(Bot, u, text), u))

ReceiveOpponentPicks ==
    \E u \in Users, text \in OpponentPicksTexts :
        /\ Handler(Bot, u, text) = "receive_opponent_picks"
        /\ Deliver(Enter(receive_opponent_picks(Bot, u, text), u))

ReceiveOpponentDiscards ==
    \E u \in Users, text \in OpponentDiscardsTexts :
        /\ Handler(Bot, u, text) = "receive_opponent_discards"
        /\ Deliver(Enter(receive_opponent_discards(Bot, u, text), u))

ReceiveOpenCard ==
    \E u \in Users, text \in OpenCardTexts :
        /\ Handler(Bot, u, text) = "receive_open_card"
        /\ Deliver(Enter(receive_open_card(Bot, u, text), u))

HandlePickSource ==
    \E u \in Users, text \in PickSourceTexts :
        /\ Handler(Bot, u, text) = "handle_pick_source"
        /\ Deliver(Enter(handle_pick_source(Bot, u, text), u))

HandleDiscard ==
    \E u \in Users, text \in DiscardTexts, random \in Randoms :
        /\ Handler(Bot, u, text) = "handle_discard"
        /\ Deliver(Enter(handle_discard(Bot, u, text, random), u))

Cancel ==
    \E u \in Users :
        /\ Handler(Bot, u, CANCEL_TEXT) = "cancel"
        /\ Deliver(Enter(cancel(Bot, u), u))

Next ==
    \/ Start
    \/ ReceiveHand
    \/ ReceiveJoker
    \/ HandlePlayOrDrop
    \/ ReceiveDiscardPile
    \/ ReceiveOpponentPicks
    \/ ReceiveOpponentDiscards
    \/ ReceiveOpenCard
    \/ HandlePickSource
    \/ HandleDiscard
    \/ Cancel

Init == AdvisorInit

Spec == Init /\ [][Next]_vars

(***************************************************************************)
(* SpecIsolation: two runs of the bot side by side.  Both receive the same *)
(* updates in the same order, except that the opponent picks and discards  *)
(* entered by user "B" may differ between the runs.                        *)
(***************************************************************************)
\* The bound on what a RummyAI object has counted when two users play a game each.
MaxObservedBoth == 5

\* The texts a user sends in a conversation state.
TextsIn(state) ==
    CASE state = END                           -> { START_TEXT }
      [] state = WAITING_FOR_HAND              -> { Lower(PromptHand) }
      [] state = WAITING_FOR_JOKER             -> { << <<"7","d">> >> }
      [] state = SHOWING_SUGGESTION            -> { << PLAY >> }
      [] state = WAITING_FOR_DISCARD_PILE      -> { NONE_MESSAGE }
      [] state = WAITING_FOR_OPPONENT_PICKS    -> OpponentPicksTexts
      [] state = WAITING_FOR_OPPONENT_DISCARDS -> OpponentDiscardsTexts
      [] state = WAITING_FOR_OPEN_CARD         -> { NONE_MESSAGE, << <<"9","h">> >> }
      [] state = GAME_ACTIVE                   ->
             PickSourceTexts \cup { << <<"2","d">> >> }

\* The states in which the user enters the opponent's picks or discards.
EntersOpponentHistory(h, user_id) ==
    h.conversation[user_id] \in {WAITING_FOR_OPPONENT_PICKS, WAITING_FOR_OPPONENT_DISCARDS}

\* The objects first and second are what handling an update has made of the two
\* bots.
DeliverBoth(first, second) ==
    /\ Bounded(first, MaxObservedBoth)
    /\ Bounded(second, MaxObservedBoth)
    /\ SetBot(first)
    /\ twin' = second
    /\ UNCHANGED call

\* The first run receives the update (user_id, text), the second (user_id, other).
BothRuns(user_id, text, other, random) ==
    DeliverBoth(process_update(Bot, user_id, text, random),
                process_update(twin, user_id, other, random))

\* Both runs receive the same update.
SameUpdate ==
    \E u \in Users, random \in Randoms :
        \E text \in TextsIn(conversation[u]) :
            /\ Handler(Bot, u, text) # ""
            /\ BothRuns(u, text, text, random)

\* User "B" enters one opponent history in the first run and another in the second.
DifferingHistory ==
    /\ EntersOpponentHistory(Bot, "B")
    /\ twin.conversation["B"] = conversation["B"]
    /\ \E text, other \in TextsIn(conversation["B"]) :
          /\ text # other
          /\ BothRuns("B", text, other, 0)

IsolationNext == SameUpdate \/ DifferingHistory

SpecIsolation == Init /\ [][IsolationNext]_vars

(***************************************************************************)
(* SpecShipped: the conversation with the names of bot/handlers.py         *)
(* resolved as its import statements leave them.  validate_card is not     *)
(* bound there, so no update takes a conversation past WAITING_FOR_JOKER,  *)
(* and the handlers of the later states are never run.  The last update    *)
(* delivered, and the conversation state it was handled in, stay in        *)
(* `call`.                                                                 *)
(***************************************************************************)
DeliverLogged(h, user_id, text) ==
    /\ Bounded(h, MaxObserved)
    /\ SetBot(h)
    /\ call' = [op |-> "update", user |-> user_id, text |-> text,
                state |-> conversation[user_id]]
    /\ UNCHANGED twin

ShippedStart ==
    \E u \in Users :
        /\ Handler(Bot, u, START_TEXT) = "start"
        /\ DeliverLogged(IF conversation[u] = END THEN Enter(start(Bot, u), u)
                         ELSE start(Bot, u).h,
                         u, START_TEXT)

ShippedReceiveHand ==
    \E u \in Users, text \in HandTexts :
        /\ Handler(Bot, u, text) = "receive_hand"
        /\ DeliverLogged(Enter(receive_hand(Bot, u, text), u), u, text)

ShippedReceiveJoker ==
    \E u \in Users, text \in JokerTexts :
        /\ Handler(Bot, u, text) = "receive_joker"
        /\ DeliverLogged(Enter(receive_joker_AsImported(Bot, u, text), u), u, text)

ShippedCancel ==
    \E u \in Users :
        /\ Handler(Bot, u, CANCEL_TEXT) = "cancel"
        /\ DeliverLogged(Enter(cancel(Bot, u), u), u, CANCEL_TEXT)

ShippedNext ==
    \/ ShippedStart
    \/ ShippedReceiveHand
    \/ ShippedReceiveJoker
    \/ ShippedCancel

SpecShipped == Init /\ [][ShippedNext]_vars

(***************************************************************************)
(* SpecChats: the bot reached from more than one chat.  The                *)
(* ConversationHandler is built with its default per_chat and per_user, so *)
(* it keeps one conversation per (chat id, user id), while user_sessions   *)
(* is keyed by update.message.from_user.id alone: the conversations a user *)
(* has in two chats read and write the same GameState.  `conversation` is  *)
(* here a function of the conversation key.                                *)
(***************************************************************************)
Chats == { "private", "group" }

\* ConversationHandler._get_key: (chat id, user id)
Keys == Chats \X Users

\* The chats a user writes to the bot in: "A" in both, "B" in the private one.
ChatsOf(user_id) == IF user_id = "A" THEN Chats ELSE { "private" }

\* In the group the bot is sent commands only; the games are played in the private
\* chats.
PlayedIn == { "private" }

\* The bot as the handlers of an update from `chat` see it.
BotInChat(chat) ==
    [Bot EXCEPT !.conversation = [u \in Users |-> conversation[<<chat, u>>]]]

ChatsInit ==
    /\ ai = NewRummyBotHandlers(Users).ai
    /\ user_sessions = NewRummyBotHandlers(Users).user_sessions
    /\ conversation = [k \in Keys |-> END]
    /\ reply = NewRummyBotHandlers(Users).reply
    /\ twin = NewRummyBotHandlers(Users)
    /\ call = NoCall

\* h is what handling an update from `chat` has made of the bot.
DeliverIn(chat, h) ==
    /\ Bounded(h, MaxObserved)
    /\ ai' = h.ai
    /\ user_sessions' = h.user_sessions
    /\ reply' = h.reply
    /\ conversation' = [k \in Keys |-> IF k[1] = chat THEN h.conversation[k[2]]
                                        ELSE conversation[k]]
    /\ UNCHANGED <<call, twin>>

ChatStart ==
    \E u \in Users : \E chat \in ChatsOf(u) :
        /\ Handler(BotInChat(chat), u, START_TEXT) = "start"
        /\ DeliverIn(chat, process_update(BotInChat(chat), u, START_TEXT, 0))

ChatCancel ==
    \E u \in Users : \E chat \in ChatsOf(u) :
        /\ Handler(BotInChat(chat), u, CANCEL_TEXT) = "cancel"
        /\ DeliverIn(chat, process_update(BotInChat(chat), u, CANCEL_TEXT, 0))

ChatMessage ==
    \E u \in Users : \E chat \in ChatsOf(u) \cap PlayedIn :
        /\ conversation[<<chat, u>>] # END
        /\ \E text \in TextsIn(conversation[<<chat, u>>]) :
              /\ Handler(BotInChat(chat), u, text) # ""
              /\ DeliverIn(chat, process_update(BotInChat(chat), u, text, 0))

ChatsNext ==
    \/ ChatStart
    \/ ChatCancel
    \/ ChatMessage

SpecChats == ChatsInit /\ [][ChatsNext]_vars

(***************************************************************************)
(* Claims                                                                  *)
(***************************************************************************)
CardsOf(hand) == {hand[i] : i \in 1..Len(hand)}

\* No two cards of the hand share a rank, and no two cards of one suit have
\* adjacent ranks.
NoPairNoAdjacent(hand) ==
    /\ \A i, j \in 1..Len(hand) : i # j => RankOf(hand[i]) # RankOf(hand[j])
    /\ \A i, j \in 1..Len(hand) :
          SuitOf(hand[i]).val = SuitOf(hand[j]).val
              => RankIdx(hand[i]) # RankIdx(hand[j]) + 1

\* C1: for every 13-card hand with no shared rank and no adjacent same-suit ranks,
\* evaluate_hand_strength returns 0.0 and suggest_initial_action returns "Drop".
C1_ScatteredHandIsDropped ==
    (/\ call.op \in {"evaluate_hand_strength", "suggest_initial_action"}
     /\ Len(call.hand) = 13
     /\ NoPairNoAdjacent(call.hand))
    => IF call.op = "evaluate_hand_strength"
       THEN call.result = Return(0)
       ELSE call.result = Return("Drop")

\* The number of observed picks whose key satisfies P, each pick counted.
PicksCounted(a, keys) == SumOver(a.opponent_behavior.open_picks, keys)

QueryCards == { <<"5","H">>, <<"9","S">> }

\* C2: when every observed pick is a valid card, the Opponent Model judges a card
\* likely wanted exactly when more than one observed pick shares its rank or more
\* than two share its suit, a card picked several times counting once per pick.
C2_LikelyWantedCountsEveryPick ==
    \A card \in QueryCards :
        LET open_picks == DOMAIN ai.opponent_behavior.open_picks
            same_rank == {c \in open_picks : RankOf(c) = RankOf(card)}
            same_suit == {c \in open_picks : SuitOf(c).val = SuitOf(card).val}
        IN  (\A c \in open_picks : validate_card(c))
            => (_is_card_likely_useful_to_opponent(ai, card)
                <=> (PicksCounted(ai, same_rank) > 1 \/ PicksCounted(ai, same_suit) > 2))

InRunOfThree(hand, card) ==
    \E low \in 0..(Len(RANKS) - 3) :
        /\ RankIdx(card) \in low..(low + 2)
        /\ \A i \in low..(low + 2) : In(Fmt(RANKS[i + 1], SuitOf(card).val), hand)

\* C4: a card returned by suggest_trap_card is not a member of any run of 3 or more
\* consecutive-rank same-suit cards of the hand.
C4_TrapCardBreaksNoSequence ==
    (/\ call.op = "suggest_trap_card"
     /\ ~ Raised(call.result)
     /\ call.result.val # None)
    => ~ InRunOfThree(call.hand, call.result.val)

\* C5: on well-formed input suggest_pick_source returns "Open Deck" or "Closed Deck"
\* and never raises.
C5_PickSourceIsTotal ==
    (call.op = "suggest_pick_source" /\ call.opponent_picks \in PickLists)
    => /\ ~ Raised(call.result)
       /\ call.result.val \in {"Open Deck", "Closed Deck"}

\* The hand holds the two cards of the card's suit at rank offsets a and b, both
\* inside the order 2..A.
HoldsAtOffsets(hand, card, a, b) ==
    /\ RankIdx(card) + a \in 0..(Len(RANKS) - 1)
    /\ RankIdx(card) + b \in 0..(Len(RANKS) - 1)
    /\ In(Fmt(RANKS[RankIdx(card) + a + 1], SuitOf(card).val), hand)
    /\ In(Fmt(RANKS[RankIdx(card) + b + 1], SuitOf(card).val), hand)

\* C6: the meld-completion test judges a card to complete a sequence only when the
\* hand holds two cards of its suit at offsets {-2,-1}, {-1,+1} or {+1,+2} inside the
\* linear order 2..A (A and 2 are not adjacent); the other way to complete a group is
\* two cards of its rank.
C6_CompletionIsLinear ==
    (call.op = "_does_card_complete_group" /\ call.result = Return(TRUE))
    => \/ HoldsAtOffsets(call.hand, call.card, -2, -1)
       \/ HoldsAtOffsets(call.hand, call.card, -1, 1)
       \/ HoldsAtOffsets(call.hand, call.card, 1, 2)
       \/ Count(call.hand, LAMBDA c : RankOf(c) = RankOf(call.card)) >= 2

\* The session a user has, as a set: empty when the user has none.
SessionOf(h, user_id) ==
    {h.user_sessions[u] : u \in DOMAIN h.user_sessions \cap {user_id}}

\* C7: in two runs that differ only in the opponent picks and discards entered by
\* user "B", user "A" is sent the same replies (the recommendations among them) and
\* has the same session state.
C7_SessionsIsolated ==
    /\ reply["A"] = twin.reply["A"]
    /\ SessionOf(Bot, "A") = SessionOf(twin, "A")

\* C8: whenever a user starts a new game, the Opponent Model the game consults has
\* empty pick and discard counters and both preference flags false.
C8_NewGameStartsWithEmptyModel ==
    [][\A u \in Users :
          (conversation[u] = END /\ conversation'[u] = WAITING_FOR_HAND)
          => ai'.opponent_behavior = NewRummyAI.opponent_behavior]_vars

\* C9: in an active game (the hand and the joker accepted, the conversation in
\* GAME_ACTIVE) the hand holds 13 cards, or 14 while a drawn card waits for the
\* discard that follows it.
C9_HandHoldsThirteen ==
    \A u \in DOMAIN user_sessions :
        (conversation[u] = GAME_ACTIVE /\ user_sessions[u].joker # None)
        => \/ Len(user_sessions[u].hand) = 13
           \/ /\ Len(user_sessions[u].hand) = 14
              /\ user_sessions[u].picked_card # None

\* C10: an update of the Opponent Model that fails leaves the pick counters, the
\* discard counters and both preference flags as they were before the call.
C10_FailedUpdateChangesNothing ==
    (call.op = "_update_opponent_behavior" /\ Raised(call.result))
    => ai.opponent_behavior = call.before.opponent_behavior

\* C11: suggest_discard called with an empty hand returns a result; it does not end
\* in an error.
C11_EmptyHandDiscardIsNeutral ==
    (call.op = "suggest_discard" /\ call.hand = <<>>) => ~ Raised(call.result)

SuitSorted(hand, suit) == SortedByRank(SelectSeq(hand, LAMBDA c : SuitOf(c).val = suit))

\* The rank of the card at position k + 1 is the rank at position k plus one.
StepsUp(cards, k) == RankIdx(cards[k + 1]) = RankIdx(cards[k]) + 1

\* The maximal runs <<first, last>> of a rank-sorted list: stretches in which every
\* card's rank is the rank before it plus one, and which cannot be extended.
MaximalRuns(cards) ==
    { run \in (1..Len(cards)) \X (1..Len(cards)) :
        /\ run[1] <= run[2]
        /\ \A k \in run[1]..(run[2] - 1) : StepsUp(cards, k)
        /\ run[1] = 1 \/ ~ StepsUp(cards, run[1] - 1)
        /\ run[2] = Len(cards) \/ ~ StepsUp(cards, run[2]) }

\* A run of L cards contributes L - 2 when L >= 3 and 0 otherwise.
RECURSIVE RunsTotal(_)
RunsTotal(runs) ==
    IF runs = {} THEN 0
    ELSE LET run == CHOOSE r \in runs : TRUE
             L   == run[2] - run[1] + 1
         IN  (IF L >= 3 THEN L - 2 ELSE 0) + RunsTotal(runs \ {run})

\* The overlapping pure-sequence count: the sum over all runs of all suits.
OverlappingCount(hand) ==
    Sum([s \in 1..Len(SUITS) |-> RunsTotal(MaximalRuns(SuitSorted(hand, SUITS[s])))])

\* min(1.0, 0.4*pure + 0.3*potential + 0.3*sets) in hundredths, with
\* potential = pure + 0.5 * (suits held twice or more) and sets = ranks held twice
\* or more.
ScoreFormula(hand) ==
    LET pure   == OverlappingCount(hand)
        suits  == {s \in 1..Len(SUITS) : Len(SuitSorted(hand, SUITS[s])) >= 2}
        sets   == {r \in 1..Len(RANKS) :
                      Count(hand, LAMBDA c : RankOf(c) = RANKS[r]) >= 2}
        score  == 40 * pure + 30 * pure + 15 * Cardinality(suits)
                  + 30 * Cardinality(sets)
    IN  IF score < 100 THEN score ELSE 100

CompletesGroup(hand, card) ==
    \/ HoldsAtOffsets(hand, card, -2, -1)
    \/ HoldsAtOffsets(hand, card, -1, 1)
    \/ HoldsAtOffsets(hand, card, 1, 2)
    \/ Count(hand, LAMBDA c : RankOf(c) = RankOf(card)) >= 2

\* C14: suggest_pick_source returns "Closed Deck" whenever the open card is absent;
\* otherwise it applies the supplied picks and discards to the Opponent Model and
\* returns "Open Deck" if the open card completes a sequence or set in the hand, else
\* "Open Deck" if the refreshed model judges the card not likely wanted, else
\* "Closed Deck".
C14_PickSourceFollowsRule ==
    (call.op = "suggest_pick_source" /\ call.opponent_picks \in PickLists)
    => IF call.open_card = None
       THEN /\ call.result = Return("Closed Deck")
            /\ ai = call.before
       ELSE /\ ai.opponent_behavior
                 = _update_opponent_behavior(call.before, call.opponent_picks,
                                             call.opponent_discards).ai.opponent_behavior
            /\ call.result =
                 Return(IF CompletesGroup(call.hand, call.open_card) THEN "Open Deck"
                        ELSE IF ~ _is_card_likely_useful_to_opponent(ai, call.open_card)
                        THEN "Open Deck"
                        ELSE "Closed Deck")

\* The same rule on the calls the meld-completion test answers without an error and
\* without reading RANKS[-1].
C14_PickSourceFollowsRuleWhereDefined ==
    (/\ call.op = "suggest_pick_source"
     /\ ~ Raised(call.result)
     /\ call.open_card # None
     /\ RankIdx(call.open_card) >= 2)
    => C14_PickSourceFollowsRule

C16_SortCardsIdempotent ==
    call.op = "sort_cards"
    => /\ call.resorted = call.result
       /\ Len(call.result.val) = Len(call.cards)
       /\ \A card \in CardsOf(call.cards) :
             Count(call.result.val, LAMBDA c : c = card)
             = Count(call.cards, LAMBDA c : c = card)

\* A hand holding the joker and two cards of one rank, given out of order, has been
\* sorted: the joker comes first.
C16_UnsortedHandSorted ==
    /\ call.op = "sort_cards"
    /\ Len(call.cards) >= 3
    /\ call.result.val # call.cards
    /\ call.result.val[1] = call.joker
    /\ \E i, j \in 1..Len(call.cards) :
          i # j /\ call.cards[i] # call.cards[j]
          /\ RankOf(call.cards[i]) = RankOf(call.cards[j])

\* The step is a draw by the user: a turn's draw+discard cycle begins.
Draws(u) ==
    /\ u \in DOMAIN user_sessions /\ u \in DOMAIN user_sessions'
    /\ conversation[u] = GAME_ACTIVE
    /\ user_sessions[u].picked_card = None
    /\ user_sessions'[u].picked_card # None

\* C17: advice is produced on every turn of an active game: between the discard that
\* ends one turn and the draw that begins the next the advisors are invoked, so no
\* draw is made while the last message to the user is the confirmation of the
\* previous discard.
C17_EveryTurnIsAdvised ==
    [][\A u \in Users : Draws(u) => reply[u].text # "You discarded"]_vars

\* C18: whenever turn advice has been computed for a user, the opponent picks the
\* user entered for the turn are recorded in the Opponent Model the Trap Advisor
\* consulted, whether the open card is present or absent.
C18_PicksRecordedBeforeTrap ==
    \A u \in DOMAIN user_sessions :
        reply[u].text = "Game Setup Complete!"
        => \A i \in 1..Len(user_sessions[u].opponent_picks) :
              user_sessions[u].opponent_picks[i] \in DOMAIN ai.opponent_behavior.open_picks

\* C19: when a user's /start has been answered, in whatever conversation state it
\* was sent, the user's session is reset (empty hand, no joker, empty piles, trap
\* flag cleared) and the conversation expects the 13-card hand; the session is never
\* reset with the conversation left in its previous state.
C19_RestartResets ==
    \A u \in Users :
        reply[u].text = "Welcome to Rummy AI Assistant!"
        => /\ u \in DOMAIN user_sessions
           /\ user_sessions[u] = GameState_reset(user_sessions[u])
           /\ conversation[u] = WAITING_FOR_HAND

\* The cards of a rank-sorted one-suit list that lie in a maximal run of 3 or more.
LongRunCards(cards) ==
    UNION { { cards[k] : k \in run[1]..run[2] } :
            run \in { r \in MaximalRuns(cards) : r[2] - r[1] + 1 >= 3 } }

\* (a) the cards in a maximal run of 3 or more consecutive-rank cards of one suit.
InLongRun(hand) ==
    UNION { LongRunCards(SuitSorted(hand, SUITS[s])) : s \in 1..Len(SUITS) }

\* (b) the cards whose rank occurs 3 or more times in the hand.
InFullSet(hand) ==
    { c \in CardsOf(hand) : Count(hand, LAMBDA d : RankOf(d) = RankOf(c)) >= 3 }

ScoresOf(hand, joker, opponent_picks, opponent_discards) ==
    LET protected == _identify_protected_cards(hand, joker)
    IN  [ i \in 1..Len(hand) |->
            [ infinite |-> hand[i] \in protected,
              finite   |-> _calculate_card_usefulness(hand, hand[i], joker)
                               * (Len(opponent_picks) + 1)
                           - 100 * _calculate_discard_danger(hand[i], opponent_picks,
                                                             opponent_discards) ] ]

\* a < b for two scores
LowerScore(a, b) == ~ a.infinite /\ (b.infinite \/ a.finite < b.finite)

\* The first position of the hand whose score no other position's score is below.
FirstMinimum(scores) ==
    LET minimal == { i \in DOMAIN scores :
                       \A j \in DOMAIN scores : ~ LowerScore(scores[j], scores[i]) }
    IN  CHOOSE i \in minimal : \A j \in minimal : i <= j

LooksLikeSequence(hand, card) ==
    \/ HoldsAtOffsets(hand, card, -1, 1)
    \/ HoldsAtOffsets(hand, card, -2, -1)
    \/ HoldsAtOffsets(hand, card, 1, 2)

Advised(u) ==
    /\ conversation[u] = WAITING_FOR_OPEN_CARD
    /\ conversation'[u] = GAME_ACTIVE

\* What suggest_trap_card returns in the step that advises the user: it is called on
\* the object as suggest_pick_source left it, with the session's lists.
TrapCardOf(u) ==
    LET state == user_sessions'[u]
        pick_source == suggest_pick_source(ai, state.hand, state.joker, state.open_card,
                                           state.discard_pile, state.opponent_picks,
                                           state.opponent_discards)
    IN  suggest_trap_card(pick_source.ai, state.hand, state.joker,
                          state.opponent_picks, state.opponent_discards).val

\* The step is an accepted discard of the user: a card leaves the hand.
Discards(u) ==
    /\ u \in DOMAIN user_sessions /\ u \in DOMAIN user_sessions'
    /\ conversation[u] = GAME_ACTIVE
    /\ Len(user_sessions'[u].hand) = Len(user_sessions[u].hand) - 1

\* C24: the session's trap flag is set to true exactly when suggest_trap_card
\* returned a card in the turn advice and to false when it returned None; it is false
\* after every accepted discard and after every session reset, so it is true only
\* between such an advice and the next accepted discard.
C24_TrapFlagFollowsAdvice ==
    [][\A u \in Users :
          /\ Advised(u) => user_sessions'[u].trap_activated = (TrapCardOf(u) # None)
          /\ Discards(u) => ~ user_sessions'[u].trap_activated
          /\ reply'[u].text = "Welcome to Rummy AI Assistant!"
             => ~ user_sessions'[u].trap_activated
          /\ (u \in DOMAIN user_sessions' /\ user_sessions'[u].trap_activated)
             => /\ conversation'[u] = GAME_ACTIVE
                /\ reply'[u].text \in {"Game Setup Complete!", "You picked from",
                                       "Please select either 'Open Deck' or 'Closed Deck'.",
                                       "Invalid card selection."}
                /\ In(user_sessions'[u].suggested_discard, user_sessions'[u].hand)]_vars

\* The trap is armed and the user has drawn: the flag is true between the advice and
\* the discard.
C24_ArmedAfterDraw ==
    \E u \in DOMAIN user_sessions :
        /\ conversation[u] = GAME_ACTIVE
        /\ user_sessions[u].trap_activated
        /\ user_sessions[u].picked_card # None

Played(state) ==
    << state.hand, state.discard_pile, state.open_card, state.trap_activated >>

\* The bot `after` an update of user u has left u's played cards and conversation
\* state as they are now.
LeavesGame(after, u) ==
    /\ u \in DOMAIN after.user_sessions
    /\ Played(after.user_sessions[u]) = Played(user_sessions[u])
    /\ after.conversation[u] = conversation[u]

RejectedHand(text) ==
    Len(parse_cards(text)) # 13 \/ ~ validate_cards(parse_cards(text))

RejectedDiscard(u, text) ==
    \/ ~ validate_card(Strip(Upper(text)))
    \/ ~ In(Strip(Upper(text)), user_sessions[u].hand)

\* C26: a rejected input changes nothing.  When receive_hand gets a list that is not
\* exactly 13 cards or that holds a malformed token, and when handle_discard gets a
\* token that is malformed or is not a card of the current hand, the session's hand,
\* discard pile, open card and trap flag are unchanged and the conversation stays in
\* the state it was in.
C26_RejectedInputChangesNothing ==
    \A u \in DOMAIN user_sessions :
        /\ \A text \in HandTexts :
              (Handler(Bot, u, text) = "receive_hand" /\ RejectedHand(text))
              => LeavesGame(Enter(receive_hand(Bot, u, text), u), u)
        /\ \A text \in DiscardTexts, random \in Randoms :
              (Handler(Bot, u, text) = "handle_discard" /\ RejectedDiscard(u, text))
              => LeavesGame(Enter(handle_discard(Bot, u, text, random), u), u)

\* One user's hand was refused for a malformed token, and another's selection was
\* refused while the trap was armed; the flag is still set.
C26_BothRejectionsSeen ==
    \E u, v \in DOMAIN user_sessions :
        /\ conversation[u] = WAITING_FOR_HAND
        /\ reply[u].text = "Invalid card format."
        /\ user_sessions[u].hand = <<>>
        /\ conversation[v] = GAME_ACTIVE
        /\ reply[v].text = "Invalid card selection."
        /\ user_sessions[v].trap_activated
        /\ Len(user_sessions[v].hand) = 13

\* The users whose game is active before and after the step.
Playing ==
    { u \in DOMAIN user_sessions \cap DOMAIN user_sessions' :
        conversation[u] = GAME_ACTIVE /\ conversation'[u] = GAME_ACTIVE }

HandWithinFourteen ==
    \A u \in DOMAIN user_sessions : Len(user_sessions[u].hand) <= 14

\* A hand grows only by the open card, which is present and is cleared by the step.
GrowsByOpenCard ==
    \A u \in Playing :
        Len(user_sessions'[u].hand) > Len(user_sessions[u].hand)
        => /\ user_sessions[u].open_card # None
           /\ user_sessions'[u].hand
                = Append(user_sessions[u].hand, user_sessions[u].open_card)
           /\ user_sessions'[u].open_card = None

\* An open card that was taken comes back only as a card the step removed from the
\* hand.
ReappearsByDiscard ==
    \A u \in Playing :
        (user_sessions[u].open_card = None /\ user_sessions'[u].open_card # None)
        => /\ In(user_sessions'[u].open_card, user_sessions[u].hand)
           /\ user_sessions'[u].hand
                = Remove(user_sessions[u].hand, user_sessions'[u].open_card)

\* C27: in every reachable state, for every sequence of pick-source and discard
\* messages, a session's hand never holds more than 14 cards: a card is added to
\* the hand only when an open card is present, taking the open card clears it, and
\* an open card only reappears through an accepted discard that first removes a card
\* from the hand.
C27_HandNeverExceedsFourteen ==
    /\ []HandWithinFourteen
    /\ [][GrowsByOpenCard /\ ReappearsByDiscard]_vars

\* A discarded card became the open card and was taken back: the hand holds 14
\* cards again, the last of them the card on top of the discard pile.
C27_DiscardTakenBack ==
    \E u \in DOMAIN user_sessions :
        /\ conversation[u] = GAME_ACTIVE
        /\ Len(user_sessions[u].hand) = 14
        /\ user_sessions[u].discard_pile # <<>>
        /\ user_sessions[u].hand[14]
             = user_sessions[u].discard_pile[Len(user_sessions[u].discard_pile)]
        /\ user_sessions[u].open_card = None

\* C28: in every reachable state, if a user's conversation is in a non-ended state
\* (waiting for an input or in the active game), then a session entry for that user
\* exists in user_sessions, so that no handler fails on a missing session.
C28_OpenConversationHasSession ==
    \A k \in Keys : conversation[k] # END => k[2] \in DOMAIN user_sessions

====
